---- MODULE Spec2Model ----
(***************************************************************************)
(* Model of recorder_clicks_window.py: two pynput listener threads (mouse  *)
(* and keyboard) that capture a screenshot per event and append a Step to  *)
(* the global ledger under `lock`, and the main thread of start(), which   *)
(* polls `running`, stops the listeners and writes the three reports.      *)
(***************************************************************************)
EXTENDS Integers, Sequences, FiniteSets, TLC

\* ------------------------------------------------------------- bounds
\* Events that lead to a step, accepted over one session.
MaxSteps == 2
\* Advances of the system clock over one session.
MaxTicks == 1

\* ---------------------------------------------------------- constants
\* time.time()*1000: the file name carries milliseconds, now_human() seconds.
MsPerSec == 1000
ANNOTATE_CLICK == TRUE

\* The two listener threads of start().
Threads == {"mouse", "kb"}

\* Optional[int]: None is the empty tuple, a value v is <<v>>.
None == <<>>
Some(v) == <<v>>

\* Inputs the listeners deliver.
Positions == {<<100, 200>>}
Buttons == {"Button.left"}
Scrolls == {<<0, -3>>}
Keys == {"esc", "f9", "a"}
\* What active_window_info() can return: (title, app).
Windows == {<<"Notepad", "notepad.exe">>}
\* The amounts by which the system clock advances, in milliseconds.
TickSteps == {1, MsPerSec}

VARIABLES
    steps,          \* the ledger (global `steps`)
    running,        \* global `running`
    lock,           \* global `lock`: "free" or the thread holding it
    step_counter,   \* global `step_counter`
    HAS_DOCX,       \* whether python-docx was importable
    CROP_RADIUS,    \* configured crop radius (0: full screen)
    clock,          \* system clock, milliseconds since session start
    files,          \* image files present in the output tree
    mainpc,         \* position of the main thread in start()
    lst,            \* state of each pynput listener
    lpc,            \* position of each listener thread in its handler
    ev,             \* the handler's (action, x, y)
    img,            \* the handler's local `img`
    region,         \* the region the handler passes to capture()
    html_local,     \* write_html's locals `idx` and `body`
    reports         \* the report files written

vars == <<steps, running, lock, step_counter, HAS_DOCX, CROP_RADIUS, clock, files,
          mainpc, lst, lpc, ev, img, region, html_local, reports>>

globals == <<steps, running, lock, step_counter>>
listenerVars == <<lst, lpc, ev, img, region>>
config == <<HAS_DOCX, CROP_RADIUS>>
mainVars == <<mainpc, html_local, reports>>

\* ------------------------------------------------------------ helpers
\* max(0, v)
Max0(v) == IF v > 0 THEN v ELSE 0

\* str.startswith
StartsWith(s, p) == Len(s) >= Len(p) /\ SubSeq(s, 1, Len(p)) = p

\* A variant of ButtonName that keeps str(button) as it is.
ButtonNameRaw(button) == button

\* str(button).replace("Button.", ""), for the buttons pynput names.
ButtonName(button) ==
    IF StartsWith(button, "Button.")
    THEN SubSeq(button, Len("Button.") + 1, Len(button))
    ELSE button

\* now_human(): the clock at a resolution of one second.
now_human == clock \div MsPerSec

\* screenshot_path(prefix): IMAGES_DIR / f"{prefix}_{int(time.time()*1000)}.png"
screenshot_path(prefix) == [prefix |-> prefix, epoch_ms |-> clock]

\* A variant of capture_with_optional_crop that does not clamp at the edge.
capture_with_optional_crop_unclamped(x, y) ==
    IF CROP_RADIUS # 0 /\ x # None /\ y # None
    THEN <<x[1] - CROP_RADIUS, y[1] - CROP_RADIUS, CROP_RADIUS * 2, CROP_RADIUS * 2>>
    ELSE None

\* capture_with_optional_crop(x, y): the region handed to capture(), as
\* (left, top, width, height); None is the full screen.
capture_with_optional_crop(x, y) ==
    IF CROP_RADIUS # 0 /\ x # None /\ y # None
    THEN <<Max0(x[1] - CROP_RADIUS), Max0(y[1] - CROP_RADIUS),
           CROP_RADIUS * 2, CROP_RADIUS * 2>>
    ELSE None

\* f"images/{img_path.name}" and f"images_marked/{marked.name}"
RelPath(dir, name) == [dir |-> dir, name |-> name]

NoImg == [prefix |-> "", epoch_ms |-> 0]
NoEv == [action |-> "", x |-> None, y |-> None]
NoReport == [exists |-> FALSE, idxs |-> <<>>]

\* for s in steps: ... s.idx
StepIdxs == [i \in 1..Len(steps) |-> steps[i].idx]

\* Number of clock advances so far (each is 1 ms or one second).
Ticks == (clock \div MsPerSec) + (clock % MsPerSec)

\* Handlers that have accepted an event and not yet taken their index.
Pending == Cardinality({t \in Threads : lpc[t] \in {"capture", "record"}})

\* The listeners are daemon threads: they end with the main thread.
ProcessAlive == mainpc \notin {"done", "crashed"}

CanAccept(t) ==
    /\ ProcessAlive
    /\ lst[t] = "running"
    /\ lpc[t] = "idle"
    /\ step_counter + Pending < MaxSteps

\* --------------------------------------------------------------- Init
Init ==
    /\ steps = <<>>
    /\ running = TRUE
    /\ lock = "free"
    /\ step_counter = 0
    /\ HAS_DOCX \in BOOLEAN
    /\ CROP_RADIUS = 0
    /\ clock = 0
    /\ files = {}
    /\ mainpc = "idle"
    /\ lst = [t \in Threads |-> "new"]
    /\ lpc = [t \in Threads |-> "idle"]
    /\ ev = [t \in Threads |-> NoEv]
    /\ img = [t \in Threads |-> NoImg]
    /\ region = [t \in Threads |-> None]
    /\ html_local = [idx |-> <<>>, body |-> <<>>]
    /\ reports = [md |-> NoReport, html |-> NoReport, docx |-> NoReport]

\* -------------------------------------------------------- environment
Tick ==
    /\ Ticks < MaxTicks
    /\ \E d \in TickSteps : clock' = clock + d
    /\ UNCHANGED <<globals, config, files, listenerVars, mainVars>>

\* ---------------------------------------------------------- listeners
\* on_click: a release returns at once; a press goes on to capture.
OnClick(x, y, button, pressed) ==
    /\ CanAccept("mouse")
    /\ IF ~pressed
       THEN UNCHANGED <<lpc, ev, region>>
       ELSE /\ lpc' = [lpc EXCEPT !["mouse"] = "capture"]
            /\ ev' = [ev EXCEPT !["mouse"] =
                        [action |-> "click " \o ButtonName(button),
                         x |-> Some(x), y |-> Some(y)]]
            /\ region' = [region EXCEPT !["mouse"] =
                            capture_with_optional_crop(Some(x), Some(y))]
    /\ UNCHANGED <<globals, config, clock, files, lst, img, mainVars>>

OnScroll(x, y, dx, dy) ==
    /\ CanAccept("mouse")
    /\ lpc' = [lpc EXCEPT !["mouse"] = "capture"]
    /\ ev' = [ev EXCEPT !["mouse"] =
                [action |-> "scroll dx=" \o ToString(dx) \o " dy=" \o ToString(dy),
                 x |-> Some(x), y |-> Some(y)]]
    /\ region' = [region EXCEPT !["mouse"] = capture_with_optional_crop(Some(x), Some(y))]
    /\ UNCHANGED <<globals, config, clock, files, lst, img, mainVars>>

\* A variant of OnPress whose ESC branch does not return False: the flag is
\* cleared and the keyboard listener keeps delivering keys.
OnPressEscKeepsListening(key) ==
    /\ ProcessAlive
    /\ lst["kb"] = "running"
    /\ lpc["kb"] = "idle"
    /\ CASE key = "esc" ->
              /\ running' = FALSE
              /\ UNCHANGED <<lst, lpc, ev, region>>
         [] key = "f9" ->
              /\ step_counter + Pending < MaxSteps
              /\ lpc' = [lpc EXCEPT !["kb"] = "capture"]
              /\ ev' = [ev EXCEPT !["kb"] =
                          [action |-> "manual screenshot", x |-> None, y |-> None]]
              /\ region' = [region EXCEPT !["kb"] = None]
              /\ UNCHANGED <<running, lst>>
         [] OTHER -> UNCHANGED <<running, lst, lpc, ev, region>>
    /\ UNCHANGED <<steps, lock, step_counter, config, clock, files, img, mainVars>>

\* on_press: ESC clears `running` and returns False, which stops the
\* keyboard listener; F9 goes on to capture; any other key is ignored.
OnPress(key) ==
    /\ ProcessAlive
    /\ lst["kb"] = "running"
    /\ lpc["kb"] = "idle"
    /\ CASE key = "esc" ->
              /\ running' = FALSE
              /\ lst' = [lst EXCEPT !["kb"] = "stopped"]
              /\ UNCHANGED <<lpc, ev, region>>
         [] key = "f9" ->
              /\ step_counter + Pending < MaxSteps
              /\ lpc' = [lpc EXCEPT !["kb"] = "capture"]
              /\ ev' = [ev EXCEPT !["kb"] =
                          [action |-> "manual screenshot", x |-> None, y |-> None]]
              /\ region' = [region EXCEPT !["kb"] = None]
              /\ UNCHANGED <<running, lst>>
         [] OTHER -> UNCHANGED <<running, lst, lpc, ev, region>>
    /\ UNCHANGED <<steps, lock, step_counter, config, clock, files, img, mainVars>>

\* A variant of Capture taken under the lock, which the handler then holds
\* while it goes on to record().
CaptureUnderLock(t) ==
    /\ ProcessAlive
    /\ lpc[t] = "capture"
    /\ lock = "free"
    /\ \E ok \in BOOLEAN :
         IF ok
         THEN /\ img' = [img EXCEPT ![t] = screenshot_path("step")]
              /\ files' = files \cup {RelPath("images", screenshot_path("step"))}
              /\ lpc' = [lpc EXCEPT ![t] = "record"]
              /\ lock' = t
              /\ UNCHANGED <<lst, ev, region>>
         ELSE /\ lpc' = [lpc EXCEPT ![t] = IF t = "kb" THEN "except" ELSE "idle"]
              /\ ev' = [ev EXCEPT ![t] = NoEv]
              /\ region' = [region EXCEPT ![t] = None]
              /\ lst' = [lst EXCEPT ![t] = IF t = "kb" THEN @ ELSE "crashed"]
              /\ UNCHANGED <<img, files, lock>>
    /\ UNCHANGED <<steps, running, step_counter, config, clock, mainVars>>

\* A variant of Capture as called from an on_press without its try/except:
\* the error ends the keyboard listener as it does the mouse listener.
CaptureUncaught(t) ==
    /\ ProcessAlive
    /\ lpc[t] = "capture"
    /\ \E ok \in BOOLEAN :
         IF ok
         THEN /\ img' = [img EXCEPT ![t] = screenshot_path("step")]
              /\ files' = files \cup {RelPath("images", screenshot_path("step"))}
              /\ lpc' = [lpc EXCEPT ![t] = "record"]
              /\ UNCHANGED <<lst, ev, region>>
         ELSE /\ lpc' = [lpc EXCEPT ![t] = "idle"]
              /\ ev' = [ev EXCEPT ![t] = NoEv]
              /\ region' = [region EXCEPT ![t] = None]
              /\ lst' = [lst EXCEPT ![t] = "crashed"]
              /\ UNCHANGED <<img, files>>
    /\ UNCHANGED <<globals, config, clock, mainVars>>

\* capture(): the path is taken from the clock, the screenshot saved there.
\* pyautogui.screenshot may raise: on_press catches it (the handler goes to
\* its except block) and the keyboard listener goes on; on_click and
\* on_scroll do not, and the exception ends the mouse listener's thread.
Capture(t) ==
    /\ ProcessAlive
    /\ lpc[t] = "capture"
    /\ \E ok \in BOOLEAN :
         IF ok
         THEN /\ img' = [img EXCEPT ![t] = screenshot_path("step")]
              /\ files' = files \cup {RelPath("images", screenshot_path("step"))}
              /\ lpc' = [lpc EXCEPT ![t] = "record"]
              /\ UNCHANGED <<lst, ev, region>>
         ELSE /\ lpc' = [lpc EXCEPT ![t] = IF t = "kb" THEN "except" ELSE "idle"]
              /\ ev' = [ev EXCEPT ![t] = NoEv]
              /\ region' = [region EXCEPT ![t] = None]
              /\ lst' = [lst EXCEPT ![t] = IF t = "kb" THEN @ ELSE "crashed"]
              /\ UNCHANGED <<img, files>>
    /\ UNCHANGED <<globals, config, clock, mainVars>>

\* on_press: `except Exception as e: print("on_press error:", e)`, after
\* which the handler returns None and the listener goes on.
OnPressExcept ==
    /\ ProcessAlive
    /\ lpc["kb"] = "except"
    /\ lpc' = [lpc EXCEPT !["kb"] = "idle"]
    /\ UNCHANGED <<globals, config, clock, files, lst, ev, img, region, mainVars>>

\* A variant of RecordAcquire that does not wait for the lock.
RecordAcquireNoLock(t) ==
    /\ ProcessAlive
    /\ lpc[t] = "record"
    /\ lock' = t
    /\ step_counter' = step_counter + 1
    /\ lpc' = [lpc EXCEPT ![t] = "locked"]
    /\ UNCHANGED <<steps, running, config, clock, files, lst, ev, img, region,
                   mainVars>>

\* record(): `with lock:` and `step_counter += 1`.
RecordAcquire(t) ==
    /\ ProcessAlive
    /\ lpc[t] = "record"
    /\ lock = "free"
    /\ lock' = t
    /\ step_counter' = step_counter + 1
    /\ lpc' = [lpc EXCEPT ![t] = "locked"]
    /\ UNCHANGED <<steps, running, config, clock, files, lst, ev, img, region,
                   mainVars>>

\* A variant of AttemptsAnnotation that annotates whatever the action is.
AttemptsAnnotationAlways(action) == ANNOTATE_CLICK

\* record(): `if ANNOTATE_CLICK and action.startswith("click")`.
AttemptsAnnotation(action) == ANNOTATE_CLICK /\ StartsWith(action, "click")

\* The empty string as a relative path.
NoPath == [dir |-> "", name |-> NoImg]

\* A variant of AnnotateResult that names the marked file before it exists.
AnnotateResultIgnoresFailure(annotated, name) == RelPath("images_marked", name)

\* record(): marked_rel after the try/except around annotate_click_on_image.
AnnotateResult(annotated, name) ==
    IF annotated THEN RelPath("images_marked", name) ELSE NoPath

\* A variant of OrFallback without the fallback.
OrFallbackMissing(marked_rel, name) == marked_rel

\* record(): `marked_rel or f"images/{img_path.name}"`.
OrFallback(marked_rel, name) ==
    IF marked_rel # NoPath THEN marked_rel ELSE RelPath("images", name)

\* A variant of StepTs that takes the time of the capture.
StepTsAtCapture(t) == img[t].epoch_ms \div MsPerSec

\* record(): `ts=now_human()`, read while the Step is built.
StepTs(t) == now_human

\* A variant of RecordAppend whose annotation is not wrapped in try/except:
\* a failure leaves record() (the lock released by `with`) before the append
\* and goes the way of a capture error.
RecordAppendAnnotateRaises(t) ==
    /\ ProcessAlive
    /\ lpc[t] = "locked"
    /\ \E w \in Windows :
       \E annotated \in (IF AttemptsAnnotation(ev[t].action) THEN BOOLEAN ELSE {FALSE}) :
            LET raised == AttemptsAnnotation(ev[t].action) /\ ~annotated
                step == [idx |-> step_counter,
                         ts |-> StepTs(t),
                         action |-> ev[t].action,
                         x |-> ev[t].x, y |-> ev[t].y,
                         window_title |-> w[1],
                         app_name |-> w[2],
                         img_rel |-> RelPath("images", img[t]),
                         img_mark_rel |-> OrFallback(AnnotateResult(annotated, img[t]), img[t])]
            IN /\ steps' = IF raised THEN steps ELSE Append(steps, step)
               /\ files' = IF annotated
                           THEN files \cup {RelPath("images_marked", img[t])}
                           ELSE files
               /\ lst' = [lst EXCEPT ![t] = IF raised /\ t # "kb" THEN "crashed" ELSE @]
               /\ lpc' = [lpc EXCEPT ![t] = IF raised /\ t = "kb" THEN "except" ELSE "idle"]
    /\ lock' = "free"
    /\ ev' = [ev EXCEPT ![t] = NoEv]
    /\ img' = [img EXCEPT ![t] = NoImg]
    /\ region' = [region EXCEPT ![t] = None]
    /\ UNCHANGED <<running, step_counter, config, clock, mainVars>>

\* record(): window lookup, annotation of a click (which may fail), the
\* Step built from the globals and the append; then the lock is released
\* and the handler returns. Nothing here raises: active_window_info and the
\* annotation catch their own errors (the console line is taken to print).
RecordAppend(t) ==
    /\ ProcessAlive
    /\ lpc[t] = "locked"
    /\ \E w \in Windows :
       \E annotated \in (IF AttemptsAnnotation(ev[t].action) THEN BOOLEAN ELSE {FALSE}) :
            LET marked_rel == AnnotateResult(annotated, img[t])
                step == [idx |-> step_counter,
                         ts |-> StepTs(t),
                         action |-> ev[t].action,
                         x |-> ev[t].x, y |-> ev[t].y,
                         window_title |-> w[1],
                         app_name |-> w[2],
                         img_rel |-> RelPath("images", img[t]),
                         img_mark_rel |-> OrFallback(marked_rel, img[t])]
            IN /\ steps' = Append(steps, step)
               /\ files' = IF annotated
                           THEN files \cup {RelPath("images_marked", img[t])}
                           ELSE files
    /\ lock' = "free"
    /\ lpc' = [lpc EXCEPT ![t] = "idle"]
    /\ ev' = [ev EXCEPT ![t] = NoEv]
    /\ img' = [img EXCEPT ![t] = NoImg]
    /\ region' = [region EXCEPT ![t] = None]
    /\ UNCHANGED <<running, step_counter, config, clock, lst, mainVars>>

\* ------------------------------------------------------------- main
\* start(): the provisional markdown header, then both listeners start.
Start ==
    /\ mainpc = "idle"
    /\ reports' = [reports EXCEPT !.md = [exists |-> TRUE, idxs |-> <<>>]]
    /\ lst' = [t \in Threads |-> "running"]
    /\ mainpc' = "poll"
    /\ UNCHANGED <<globals, config, clock, files, lpc, ev, img, region, html_local>>

\* A variant of MainPoll that leaves the loop whatever `running` is.
MainPollIgnoresFlag ==
    /\ mainpc = "poll"
    /\ mainpc' = "stop_m"
    /\ UNCHANGED <<globals, config, clock, files, listenerVars, html_local, reports>>

\* A variant of MainPoll that never sees the flag cleared.
MainPollNeverLeaves ==
    /\ mainpc = "poll"
    /\ ~running
    /\ UNCHANGED vars

\* `while running: time.sleep(0.2)`: the loop is left once running is False.
MainPoll ==
    /\ mainpc = "poll"
    /\ ~running
    /\ mainpc' = "stop_m"
    /\ UNCHANGED <<globals, config, clock, files, listenerVars, html_local, reports>>

\* Listener.stop(): no further event is delivered; it does not wait for a
\* handler that is running.
StopListener(t) == [lst EXCEPT ![t] = IF @ = "running" THEN "stopped" ELSE @]

\* finally: m_listener.stop()
MainStopMouse ==
    /\ mainpc = "stop_m"
    /\ lst' = StopListener("mouse")
    /\ mainpc' = "stop_k"
    /\ UNCHANGED <<globals, config, clock, files, lpc, ev, img, region, html_local, reports>>

\* finally: k_listener.stop()
MainStopKeyboard ==
    /\ mainpc = "stop_k"
    /\ lst' = StopListener("kb")
    /\ mainpc' = "md"
    /\ UNCHANGED <<globals, config, clock, files, lpc, ev, img, region, html_local, reports>>

\* write_markdown(): one section per step, then write_text, which may raise.
WriteMarkdown ==
    /\ mainpc = "md"
    /\ \E ok \in BOOLEAN :
         IF ok
         THEN /\ reports' = [reports EXCEPT !.md = [exists |-> TRUE, idxs |-> StepIdxs]]
              /\ mainpc' = "html_idx"
         ELSE /\ mainpc' = "crashed"
              /\ UNCHANGED reports
    /\ UNCHANGED <<globals, config, clock, files, listenerVars, html_local>>

\* write_html(): the index loop.
WriteHtmlIndex ==
    /\ mainpc = "html_idx"
    /\ html_local' = [html_local EXCEPT !.idx = StepIdxs]
    /\ mainpc' = "html_body"
    /\ UNCHANGED <<globals, config, clock, files, listenerVars, reports>>

\* write_html(): the loop over the cards.
WriteHtmlBody ==
    /\ mainpc = "html_body"
    /\ html_local' = [html_local EXCEPT !.body = StepIdxs]
    /\ mainpc' = "html_foot"
    /\ UNCHANGED <<globals, config, clock, files, listenerVars, reports>>

\* write_html(): the footer with len(steps), then write_text, which may raise.
WriteHtmlFoot ==
    /\ mainpc = "html_foot"
    /\ \E ok \in BOOLEAN :
         IF ok
         THEN /\ reports' = [reports EXCEPT !.html =
                               [exists |-> TRUE, idxs |-> html_local.idx,
                                body |-> html_local.body, count |-> Len(steps)]]
              /\ mainpc' = "docx"
         ELSE /\ mainpc' = "crashed"
              /\ UNCHANGED reports
    /\ html_local' = [idx |-> <<>>, body |-> <<>>]
    /\ UNCHANGED <<globals, config, clock, files, listenerVars>>

\* A variant of WriteDocx without the `if not HAS_DOCX: return`: without
\* the library Document() raises.
WriteDocxIgnoresFlag ==
    /\ mainpc = "docx"
    /\ \E ok \in (IF HAS_DOCX THEN BOOLEAN ELSE {FALSE}) :
         IF ok
         THEN /\ reports' = [reports EXCEPT !.docx = [exists |-> TRUE, idxs |-> StepIdxs]]
              /\ mainpc' = "done"
         ELSE /\ mainpc' = "crashed"
              /\ UNCHANGED reports
    /\ UNCHANGED <<globals, config, clock, files, listenerVars, html_local>>

\* write_docx_if_possible(): skipped without python-docx; otherwise one page
\* per step and doc.save, which may raise.
WriteDocx ==
    /\ mainpc = "docx"
    /\ IF ~HAS_DOCX
       THEN /\ mainpc' = "done"
            /\ UNCHANGED reports
       ELSE \E ok \in BOOLEAN :
              IF ok
              THEN /\ reports' = [reports EXCEPT !.docx = [exists |-> TRUE, idxs |-> StepIdxs]]
                   /\ mainpc' = "done"
              ELSE /\ mainpc' = "crashed"
                   /\ UNCHANGED reports
    /\ UNCHANGED <<globals, config, clock, files, listenerVars, html_local>>

MainNext ==
    \/ Start
    \/ MainPoll
    \/ MainStopMouse
    \/ MainStopKeyboard
    \/ WriteMarkdown
    \/ WriteHtmlIndex
    \/ WriteHtmlBody
    \/ WriteHtmlFoot
    \/ WriteDocx

ListenerNext ==
    \/ \E p \in Positions, b \in Buttons, pressed \in BOOLEAN : OnClick(p[1], p[2], b, pressed)
    \/ \E p \in Positions, s \in Scrolls : OnScroll(p[1], p[2], s[1], s[2])
    \/ \E k \in Keys : OnPress(k)
    \/ OnPressExcept
    \/ \E t \in Threads : Capture(t)
    \/ \E t \in Threads : RecordAcquire(t)
    \/ \E t \in Threads : RecordAppend(t)

Next == Tick \/ ListenerNext \/ MainNext

Spec == Init /\ [][Next]_vars

\* The main thread is scheduled: it wakes from each sleep and runs on.
FairSpec == Spec /\ WF_vars(MainNext)

\* The session-level state machine.
Phase ==
    CASE mainpc = "idle" -> "Idle"
      [] mainpc \in {"poll", "stop_m", "stop_k"} -> "Listening"
      [] mainpc \in {"md", "html_idx", "html_body", "html_foot", "docx"} -> "Rendering"
      [] mainpc = "done" -> "Done"
      [] OTHER -> "Failed"

\* ------------------------------------------------------------- claims
\* A handler that has accepted an event and not yet returned.
InConstruction(t) == lpc[t] \in {"capture", "record", "locked"}

\* The clock reading a step's screenshot was captured at.
CapturedAt(s) == s.img_rel.name.epoch_ms

\* C1: after any interleaving of the two listeners the ledger holds the
\* indices 1..N without gap or duplicate, the i-th element having idx = i.
C1_LedgerIndicesContiguous ==
    \A i \in 1..Len(steps) : steps[i].idx = i

\* Two steps from the two listeners, the click captured first and appended
\* second.
C1_Witness ==
    /\ Len(steps) >= 2
    /\ steps[1].action = "manual screenshot"
    /\ StartsWith(steps[2].action, "click")
    /\ CapturedAt(steps[2]) < CapturedAt(steps[1])

\* C2: the whole construction of a step, capture included, runs holding the
\* lock: a handler in any part of it holds the lock, and no two handlers are
\* in it together.
C2_ConstructionUnderLock ==
    /\ \A t \in Threads : InConstruction(t) => lock = t
    /\ Cardinality({t \in Threads : InConstruction(t)}) <= 1

\* C3: a step whose screenshot was captured before another's has the
\* smaller index.
C3_CaptureOrderIsIndexOrder ==
    \A i, j \in 1..Len(steps) :
        CapturedAt(steps[i]) < CapturedAt(steps[j]) => steps[i].idx < steps[j].idx

\* C4: no two distinct steps of the ledger have the same img_rel.
C4_ImageRefUnique ==
    \A i, j \in 1..Len(steps) :
        i # j => steps[i].img_rel # steps[j].img_rel

\* C5: from the start of write_markdown on, no step is appended and
\* step_counter does not change.
C5_LedgerFrozenWhileRendering ==
    [][(Phase \in {"Rendering", "Done"})
         => (steps' = steps /\ step_counter' = step_counter)]_vars

\* C6: when the session is Done, every report written holds one entry per
\* step of the ledger: the markdown, the HTML index, cards and footer count,
\* and the DOCX when it was written.
C6_ReportsHoldTheSameSteps ==
    Phase = "Done" =>
        /\ reports.md.exists /\ reports.md.idxs = StepIdxs
        /\ reports.html.exists
        /\ reports.html.idxs = StepIdxs
        /\ reports.html.body = StepIdxs
        /\ reports.html.count = Len(steps)
        /\ reports.docx.exists => reports.docx.idxs = StepIdxs

\* C7: a capture error costs only the step: the listener that received the
\* event goes on listening (no handler lets the error end its listener).
C7_CaptureErrorKeepsListener ==
    \A t \in Threads : lst[t] # "crashed"

\* C8: Listening is entered from Idle only and left only for Rendering, and
\* only with `running` cleared; while a renderer runs or has run, `running`
\* is False and neither listener is still delivering events.
C8_ListeningLeftOnlyByTerminateKey ==
    /\ []((Phase \in {"Rendering", "Done", "Failed"})
            => (~running /\ \A t \in Threads : lst[t] # "running"))
    /\ [][((Phase = "Listening" /\ Phase' # "Listening")
                => (Phase' = "Rendering" /\ ~running))
          /\ ((Phase # "Listening" /\ Phase' = "Listening")
                => Phase = "Idle")]_vars

\* Rendering has begun after at least one step was recorded.
C8_Witness ==
    /\ Phase = "Rendering"
    /\ Len(steps) >= 1

\* C9: once Rendering has started the session reaches Done whatever the
\* renderers' success: the main thread never ends short of Done.
C9_RenderingReachesDone ==
    Phase # "Failed"

\* C10: once the terminate key has cleared `running`, the main thread
\* leaves its loop, stops the listeners and enters Rendering.
C10_TerminateKeyEndsListening ==
    (~running /\ Phase = "Listening") ~> (Phase = "Rendering")

\* Rendering was entered while a handler was still running.
C10_Witness ==
    /\ ~running
    /\ Phase = "Rendering"
    /\ \E t \in Threads : InConstruction(t)

\* The images_marked copy of a step's raw image.
MarkedCopy(s) == RelPath("images_marked", s.img_rel.name)

\* C11: img_mark_rel is img_rel for every step that is not a click and for
\* every click whose annotation failed (no marked file), and the
\* images_marked copy only for a click whose annotation wrote that file; no
\* file is in images_marked but for a click step.
C11_MarkedRefFallsBack ==
    /\ \A i \in 1..Len(steps) :
         LET s == steps[i]
         IN /\ s.img_mark_rel \in {s.img_rel, MarkedCopy(s)}
            /\ ~StartsWith(s.action, "click") => s.img_mark_rel = s.img_rel
            /\ MarkedCopy(s) \notin files => s.img_mark_rel = s.img_rel
            /\ s.img_mark_rel # s.img_rel =>
                 (StartsWith(s.action, "click") /\ s.img_mark_rel \in files)
    /\ \A f \in files :
         f.dir = "images_marked" =>
            \E i \in 1..Len(steps) :
                StartsWith(steps[i].action, "click") /\ MarkedCopy(steps[i]) = f

\* A click whose annotation failed was appended with the fallback, a scroll
\* with no annotation attempted.
C11_Witness ==
    /\ \E i \in 1..Len(steps) :
         /\ StartsWith(steps[i].action, "click")
         /\ steps[i].img_mark_rel = steps[i].img_rel
         /\ MarkedCopy(steps[i]) \notin files
    /\ \E j \in 1..Len(steps) :
         /\ StartsWith(steps[j].action, "scroll")
         /\ steps[j].img_mark_rel = steps[j].img_rel

\* The keyboard handler returns: its thread goes back to waiting for a key.
KbHandlerReturns == lpc["kb"] # "idle" /\ lpc'["kb"] = "idle"

\* The step the keyboard handler appends: one manual screenshot, no position.
KbAppendsOneManualStep ==
    /\ Len(steps') = Len(steps) + 1
    /\ SubSeq(steps', 1, Len(steps)) = steps
    /\ steps'[Len(steps')].action = "manual screenshot"
    /\ steps'[Len(steps')].x = None
    /\ steps'[Len(steps')].y = None

\* What C12 says of the terminate key and of the keys that are ignored: the
\* flag is cleared only by a step that stops the keyboard listener and
\* appends nothing, and any other key changes nothing.
KeyFrame ==
    /\ (running' # running) =>
          /\ ~running'
          /\ lst["kb"] = "running" /\ lst'["kb"] = "stopped"
          /\ lpc' = lpc
          /\ steps' = steps /\ step_counter' = step_counter
    /\ (\E k \in Keys \ {"esc", "f9"} : OnPress(k)) =>
          UNCHANGED <<steps, step_counter, running, lst, lpc>>
    /\ (lpc["kb"] = "idle" /\ lpc'["kb"] # "idle") =>
          (lpc'["kb"] = "capture" /\ steps' = steps /\ running' = running)

\* C12 as stated: the terminate key sets the flag, stops the keyboard
\* listener and appends nothing; every handling of the manual-capture key
\* appends exactly one step without position; other keys change nothing.
C12_KeyEffects ==
    [][KeyFrame /\ (KbHandlerReturns => KbAppendsOneManualStep)]_vars

\* C12 as amended: the manual-capture key appends exactly one step without
\* position when its capture succeeds, and none when the capture raises
\* (the handler then passes through its except block).
C12_KeyEffectsUnlessCaptureFails ==
    [][/\ KeyFrame
       /\ (KbHandlerReturns /\ lpc["kb"] # "except") => KbAppendsOneManualStep
       /\ (KbHandlerReturns /\ lpc["kb"] = "except") =>
             (steps' = steps /\ step_counter' = step_counter)
       /\ (lpc["kb"] # "except" /\ lpc'["kb"] = "except") =>
             (lpc["kb"] = "capture" /\ steps' = steps /\ step_counter' = step_counter)]_vars

\* A manual screenshot was appended and the terminate key pressed after it.
C12_Witness ==
    /\ Len(steps) >= 1
    /\ steps[Len(steps)].action = "manual screenshot"
    /\ steps[Len(steps)].x = None /\ steps[Len(steps)].y = None
    /\ ~running
    /\ lst["kb"] = "stopped"

\* C13: an exception raised while a key is handled is caught in on_press:
\* it never ends the keyboard listener, and while and after it is handled
\* the listener is still running and the termination flag is not set.
C13_KeyHandlerErrorsCaught ==
    /\ [](/\ lst["kb"] # "crashed"
          /\ lpc["kb"] = "except" => (lst["kb"] = "running" /\ running))
    /\ [][(lpc["kb"] = "except" /\ lpc'["kb"] # "except")
             => (lpc'["kb"] = "idle" /\ lst'["kb"] = "running" /\ running')]_vars

\* The capture of a manual screenshot has raised and on_press is in its
\* except block, after an earlier step was recorded.
C13_Witness ==
    /\ lpc["kb"] = "except"
    /\ lst["kb"] = "running"
    /\ running
    /\ Len(steps) >= 1

\* C14 as stated: every recorded action is click:<button>, scroll:<dx>,<dy>
\* or manual-screenshot; a left press gives "click:left", a scroll by
\* (0, -3) gives "scroll:0,-3", the manual-capture key "manual-screenshot".
C14_ActionTags ==
    \A i \in 1..Len(steps) :
        steps[i].action \in {"click:left", "scroll:0,-3", "manual-screenshot"}

\* C14 as amended: the actions are "click <button>", "scroll dx=<dx> dy=<dy>"
\* and "manual screenshot"; a left press gives "click left", a scroll by
\* (0, -3) gives "scroll dx=0 dy=-3", the manual-capture key (the only
\* event without position) "manual screenshot".
C14_ActionTagsOfTheCode ==
    \A i \in 1..Len(steps) :
        /\ steps[i].action \in {"click left", "scroll dx=0 dy=-3", "manual screenshot"}
        /\ (steps[i].action = "manual screenshot") <=> (steps[i].x = None)

\* A left click and a scroll by (0, -3) have been recorded.
C14_Witness ==
    /\ \E i \in 1..Len(steps) : steps[i].action = "click left"
    /\ \E j \in 1..Len(steps) : steps[j].action = "scroll dx=0 dy=-3"

\* C15: at every moment from the append on, rendering included, each
\* step's img_rel names a file present under images/ and its img_mark_rel
\* names a file present in the output tree.
C15_ImageRefsResolve ==
    \A i \in 1..Len(steps) :
        /\ steps[i].img_rel.dir = "images"
        /\ steps[i].img_rel \in files
        /\ steps[i].img_mark_rel \in files

\* The reports are written over a ledger holding an annotated click and a
\* step that refers to its raw image.
C15_Witness ==
    /\ Phase = "Done"
    /\ \E i \in 1..Len(steps) : steps[i].img_mark_rel.dir = "images_marked"
    /\ \E j \in 1..Len(steps) : steps[j].img_mark_rel = steps[j].img_rel

\* C16: for two steps of the ledger, the one with the smaller index has a
\* timestamp that is not later.
C16_TimestampsNonDecreasing ==
    \A i, j \in 1..Len(steps) :
        steps[i].idx < steps[j].idx => steps[i].ts <= steps[j].ts

\* Two steps whose screenshots were taken in the same millisecond, the
\* second appended a second later.
C16_Witness ==
    /\ Len(steps) >= 2
    /\ steps[1].ts < steps[2].ts
    /\ CapturedAt(steps[2]) = CapturedAt(steps[1])

\* C17: without python-docx, write_docx_if_possible writes nothing and
\* raises nothing: from it the main thread goes straight to Done, leaving
\* the reports as they are, and a session that is Done has the markdown and
\* HTML reports and no DOCX.
C17_DocxSkippedWithoutDependency ==
    /\ []((~HAS_DOCX) =>
            /\ ~reports.docx.exists
            /\ Phase = "Done" => (reports.md.exists /\ reports.html.exists))
    /\ [][(~HAS_DOCX /\ mainpc = "docx" /\ mainpc' # "docx")
            => (mainpc' = "done" /\ reports' = reports)]_vars

\* A session without python-docx is Done with a step in its two reports.
C17_Witness ==
    /\ ~HAS_DOCX
    /\ Phase = "Done"
    /\ reports.md.exists /\ Len(reports.md.idxs) >= 1
    /\ reports.html.exists /\ Len(reports.html.body) >= 1
    /\ ~reports.docx.exists

\* C18: whenever the lock is free step_counter is the length of the ledger;
\* the holder of the lock has taken one index more and can go on to its
\* append (no deadlock); and the lock is released only by a step that
\* appends exactly one step, carrying that index.
C18_StepCompletesUnderLock ==
    /\ [](/\ lock = "free" => step_counter = Len(steps)
          /\ \A t \in Threads :
               lock = t => /\ lpc[t] = "locked"
                           /\ step_counter = Len(steps) + 1
                           /\ ProcessAlive => ENABLED RecordAppend(t))
    /\ [][(lock # "free" /\ lock' # lock)
            => /\ lock' = "free"
               /\ Len(steps') = Len(steps) + 1
               /\ SubSeq(steps', 1, Len(steps)) = steps
               /\ steps'[Len(steps')].idx = step_counter]_vars

\* The lock is free after two clicks were appended, one whose annotation
\* failed and one whose annotation succeeded.
C18_Witness ==
    /\ lock = "free"
    /\ step_counter = 2
    /\ \E i \in 1..Len(steps) :
         StartsWith(steps[i].action, "click") /\ steps[i].img_mark_rel = steps[i].img_rel
    /\ \E j \in 1..Len(steps) :
         StartsWith(steps[j].action, "click") /\ steps[j].img_mark_rel # steps[j].img_rel

\* C19: a listener inside capture does not hold the lock, and whatever part
\* of a step the other listener is in (its own capture, waiting for the
\* lock, or inside record) that listener's next step can be taken.
C19_CaptureDoesNotBlockOther ==
    \A t, u \in Threads :
        (t # u /\ lpc[t] = "capture" /\ ProcessAlive) =>
            /\ lock # t
            /\ lpc[u] = "capture" => ENABLED Capture(u)
            /\ lpc[u] = "record" => ENABLED RecordAcquire(u)
            /\ lpc[u] = "locked" => ENABLED RecordAppend(u)

\* The mouse listener is inside capture while the keyboard listener, its
\* own capture done, is inside record holding the lock.
C19_Witness ==
    /\ lpc["mouse"] = "capture"
    /\ lpc["kb"] = "locked"
    /\ lock = "kb"
    /\ ENABLED RecordAppend("kb")

\* ----------------------------------------------------- crop region
\* The handlers up to their capture call, for any configured crop radius
\* and for positions at and near the left and top screen edge.
CropRadii == {0, 1, 2}
CropCoords == {0, 1, 3}

CropInit ==
    /\ steps = <<>>
    /\ running = TRUE
    /\ lock = "free"
    /\ step_counter = 0
    /\ HAS_DOCX \in BOOLEAN
    /\ CROP_RADIUS \in CropRadii
    /\ clock = 0
    /\ files = {}
    /\ mainpc = "idle"
    /\ lst = [t \in Threads |-> "new"]
    /\ lpc = [t \in Threads |-> "idle"]
    /\ ev = [t \in Threads |-> NoEv]
    /\ img = [t \in Threads |-> NoImg]
    /\ region = [t \in Threads |-> None]
    /\ html_local = [idx |-> <<>>, body |-> <<>>]
    /\ reports = [md |-> NoReport, html |-> NoReport, docx |-> NoReport]

CropNext ==
    \/ Start
    \/ \E x, y \in CropCoords, b \in Buttons, pressed \in BOOLEAN : OnClick(x, y, b, pressed)
    \/ \E x, y \in CropCoords, s \in Scrolls : OnScroll(x, y, s[1], s[2])
    \/ \E k \in Keys : OnPress(k)
    \/ OnPressExcept
    \/ \E t \in Threads : Capture(t)

CropSpec == CropInit /\ [][CropNext]_vars

\* C20 as stated: with a radius r > 0 and a position (x, y) the region is
\* (x - r, y - r, 2r, 2r) for every position; with r = 0 or no position it
\* is None.
C20_RegionCenteredOnPosition ==
    \A t \in Threads :
        InConstruction(t) =>
            IF CROP_RADIUS > 0 /\ ev[t].x # None /\ ev[t].y # None
            THEN region[t] = <<ev[t].x[1] - CROP_RADIUS, ev[t].y[1] - CROP_RADIUS,
                               2 * CROP_RADIUS, 2 * CROP_RADIUS>>
            ELSE region[t] = None

\* C20 as amended: left and top are x - r and y - r where these are not
\* negative and 0 where they are, so the square of side 2r is centered on
\* the position only at r or more from the left and top edges.
C20_RegionClampedAtEdge ==
    \A t \in Threads :
        InConstruction(t) =>
            IF CROP_RADIUS > 0 /\ ev[t].x # None /\ ev[t].y # None
            THEN /\ region[t] # None
                 /\ region[t][1] = (IF ev[t].x[1] < CROP_RADIUS THEN 0
                                    ELSE ev[t].x[1] - CROP_RADIUS)
                 /\ region[t][2] = (IF ev[t].y[1] < CROP_RADIUS THEN 0
                                    ELSE ev[t].y[1] - CROP_RADIUS)
                 /\ region[t][3] = 2 * CROP_RADIUS
                 /\ region[t][4] = 2 * CROP_RADIUS
            ELSE region[t] = None

\* A click nearer than the radius to the left edge and further than it from
\* the top edge is about to be captured.
C20_Witness ==
    /\ CROP_RADIUS = 2
    /\ lpc["mouse"] = "capture"
    /\ ev["mouse"].x = Some(1) /\ ev["mouse"].y = Some(3)
    /\ region["mouse"] = <<0, 1, 4, 4>>

====
